---- MODULE Spec2Model ----
(***************************************************************************)
(* Proxmox Lab Orchestrator: deploy_table, deploy_bulk and delete_table of *)
(* main.py with wait_for_task and get_px of proxmox_service.py, over the   *)
(* ledger of models.py (TableLab, DeployedResource, Template).             *)
(*                                                                         *)
(* Spec: one request runs at a time.  A request is a sequence of steps     *)
(* (pc); the cluster finishes asynchronous tasks in between (TaskFinish).  *)
(* FairSpec adds that the handler keeps taking steps, NodesSpec a node     *)
(* that goes offline, ConcSpec runs two deploy_table requests at once.     *)
(* The ledger is split into the committed rows (tables, resources) and the *)
(* rows pending in the request's SQLAlchemy session (sessAdd, sessDel),    *)
(* which reach the committed rows only through db.commit().                *)
(*                                                                         *)
(* Environment: px.cluster.nextid.get() returns an id above every id the   *)
(* cluster has created a resource for; it reserves nothing, so the id is   *)
(* taken only when a clone under it ends OK.  A task ends "OK" or with an  *)
(* error text; a clone that ends OK creates the resource, a delete that    *)
(* ends OK removes it, and the cluster refuses a stop for a resource it    *)
(* does not have.  The session of a request (Depends(database.get_db))     *)
(* ends with the request: what it has pending when an exception leaves the *)
(* handler is never committed.                                             *)
(***************************************************************************)
EXTENDS Integers, Sequences, FiniteSets, TLC

\* ---- bounds ----
MaxTable == 4          \* table numbers are 3..MaxTable
MaxVmid == 102         \* the cluster hands out ids 100..MaxVmid

TableNums == 3..MaxTable
VmIds == 100..MaxVmid

\* ---- node names: strings as sequences of code points ----
proxmox == <<112, 114, 111, 120, 109, 111, 120>>
proxmox1 == proxmox \o <<49>>
proxmox2 == proxmox \o <<50>>
proxmox3 == proxmox \o <<51>>
proxmox10 == proxmox \o <<49, 48>>
Nodes == {proxmox1, proxmox2, proxmox3, proxmox10}

\* Python's str.__lt__: code point by code point, a proper prefix is smaller
RECURSIVE StrLess(_, _)
StrLess(a, b) ==
    IF b = <<>> THEN FALSE
    ELSE IF a = <<>> THEN TRUE
    ELSE IF Head(a) # Head(b) THEN Head(a) < Head(b)
    ELSE StrLess(Tail(a), Tail(b))

\* insertion of x into an ascending list, after the elements not greater than x
RECURSIVE InsertSorted(_, _)
InsertSorted(x, s) ==
    IF s = <<>> THEN <<x>>
    ELSE IF StrLess(x, Head(s)) THEN <<x>> \o s
    ELSE <<Head(s)>> \o InsertSorted(x, Tail(s))

SortedMut(s) == s

\* sorted(list) of main.py:124
RECURSIVE Sorted(_)
Sorted(s) ==
    IF s = <<>> THEN <<>>
    ELSE InsertSorted(s[Len(s)], Sorted(SubSeq(s, 1, Len(s) - 1)))

\* [n['node'] for n in px.nodes.get() if n['status'] == 'online']
RECURSIVE OnlineNames(_)
OnlineNames(listing) ==
    IF listing = <<>> THEN <<>>
    ELSE IF Head(listing).status = "online"
         THEN <<Head(listing).node>> \o OnlineNames(Tail(listing))
         ELSE OnlineNames(Tail(listing))

SelectIndexMut(table_num, n) == (table_num + 1) % n

\* table_num % len(node_list)
SelectIndex(table_num, n) == table_num % n

\* node_list[table_num % len(node_list)] (Python lists are 0-based)
SelectNode(table_num, listing) ==
    LET node_list == Sorted(OnlineNames(listing))
    IN  node_list[SelectIndex(table_num, Len(node_list)) + 1]

\* vlan = 50 + table_num
Vlan(table_num) == 50 + table_num

\* gw = f"10.10.{vlan}.1", kept as its four octets
Gateway(vlan) == <<10, 10, vlan, 1>>

\* the address of f"ip=10.10.{vlan}.100/24"
KaliIp(vlan) == <<10, 10, vlan, 100>>

LastOctetMut(idx) == 100 + idx

\* last_octet = 101 + idx
LastOctet(idx) == 101 + idx

\* the address of f"ip=10.10.{vlan}.{last_octet}/24"
TargetIp(vlan, last_octet) == <<10, 10, vlan, last_octet>>

\* ---- template registries (rows of models.Template, in registration order) ----
Tmpl(name, vmid, role, ct) ==
    [name |-> name, pve_vmid |-> vmid, role |-> role, is_container |-> ct]

\* the clusters and registries a run starts from: the online nodes, the templates
Scenarios ==
    { [online |-> {proxmox2, proxmox1, proxmox3},
       templates |-> <<Tmpl("Kali", 9000, "attacker", FALSE),
                       Tmpl("Web", 9001, "target", TRUE),
                       Tmpl("Db", 9002, "target", TRUE)>>],
      [online |-> {},
       templates |-> <<Tmpl("Kali", 9000, "attacker", FALSE),
                       Tmpl("Web", 9001, "target", TRUE),
                       Tmpl("Db", 9002, "target", TRUE)>>],
      [online |-> {proxmox2, proxmox10},
       templates |-> <<Tmpl("Win", 9003, "target", FALSE),
                       Tmpl("Kali", 9000, "attacker", FALSE),
                       Tmpl("Web", 9001, "target", TRUE),
                       Tmpl("Db", 9002, "target", TRUE)>>],
      [online |-> {proxmox1, proxmox2, proxmox3, proxmox10},
       templates |-> <<Tmpl("Web", 9001, "target", TRUE)>>] }

\* db.query(models.Template).filter_by(role=r).all()
RECURSIVE TemplatesByRole(_, _)
TemplatesByRole(reg, r) ==
    IF reg = <<>> THEN <<>>
    ELSE IF Head(reg).role = r THEN <<Head(reg)>> \o TemplatesByRole(Tail(reg), r)
    ELSE TemplatesByRole(Tail(reg), r)

FirstTwoMut(s) == s

\* target_temps[:2]
FirstTwo(s) == SubSeq(s, 1, IF Len(s) < 2 THEN Len(s) ELSE 2)

\* ---- state ----
VARIABLES
    nodeStatus,   \* cluster: node name -> "online" | "offline"
    templates,    \* ledger: Template rows in registration order
    tables,       \* ledger, committed: TableLab rows in id order
    resources,    \* ledger, committed: DeployedResource rows in id order
    sessAdd,      \* session: DeployedResource rows given to db.add, not committed
    sessDel,      \* session: ids of rows given to db.delete, not committed
    nextid,       \* cluster: the id px.cluster.nextid.get() returns now
    cluster,      \* cluster: resource id -> the resource (node, kind, network)
    task,         \* cluster: the asynchronous task the request waits for
    calls,        \* the calls the current request has made to the cluster, in order
    pc,           \* position of the current request
    op,           \* the deploy_table / delete_table invocation in progress
    bulk,         \* the deploy_bulk invocation in progress
    target_node,  \* deploy_table: target_node
    table,        \* deploy_table / delete_table: table
    idx,          \* deploy_table: idx of the target loop
    new_id,       \* deploy_table: new_id
    todo,         \* delete_table: the rows of `resources` the loop has not reached
    err,          \* the exception that ended the request
    result,       \* the value the last invocation returned
    pre,          \* the committed ledger when the invocation in progress began
    added,        \* the rows the deploy_table in progress has given to db.add
    prev,         \* the table the request before this one purged, or 0
    flows         \* two deploy_table requests that run at the same time

ledger == <<tables, resources>>
session == <<sessAdd, sessDel>>
locals == <<target_node, table, idx, new_id, todo>>
env == <<nodeStatus, templates, flows>>
vars == <<nodeStatus, templates, tables, resources, sessAdd, sessDel, nextid, cluster,
          task, calls, pc, op, bulk, target_node, table, idx, new_id, todo, err,
          result, pre, added, prev, flows>>

NoName == <<>>
NoTable == [id |-> 0, table_number |-> 0, vlan_id |-> 0]
NoTask == [kind |-> "none", node |-> NoName, vmid |-> 0, type |-> "none", source |-> 0,
           status |-> "none", exitstatus |-> "", polls |-> 0]
NoOp == [kind |-> "none", table_num |-> 0]
NoBulk == [active |-> FALSE, start |-> 0, i |-> 0, end |-> 0, results |-> <<>>, attempted |-> <<>>]
NoErr == [kind |-> "none", detail |-> ""]
NoResult == [status |-> "none", table_num |-> 0, node |-> NoName]

ExitStatuses == {"OK", "ERR"}

Rows(seq) == {seq[i] : i \in DOMAIN seq}

Call(c, n, v) == [call |-> c, node |-> n, vmid |-> v]

\* the orders in which px.nodes.get() can list the nodes of the cluster
Listings ==
    { [i \in DOMAIN o |-> [node |-> o[i], status |-> nodeStatus[o[i]]]] :
        o \in { f \in [1..Cardinality(Nodes) -> Nodes] :
                   \A i, j \in DOMAIN f : f[i] = f[j] => i = j } }

RECURSIVE MaxRowId(_)
MaxRowId(rows) ==
    IF rows = <<>> THEN 0
    ELSE LET m == MaxRowId(Tail(rows))
         IN  IF Head(rows).id > m THEN Head(rows).id ELSE m

TableByNumberMut(rows, n) == NoTable

\* .filter_by(table_number=n).first(): the row, or NoTable for None
RECURSIVE TableByNumber(_, _)
TableByNumber(rows, n) ==
    IF rows = <<>> THEN NoTable
    ELSE IF Head(rows).table_number = n THEN Head(rows)
    ELSE TableByNumber(Tail(rows), n)

\* db.query(models.DeployedResource).filter_by(table_id=tid).all()
RECURSIVE ResourcesOfTable(_, _)
ResourcesOfTable(rows, tid) ==
    IF rows = <<>> THEN <<>>
    ELSE IF Head(rows).table_id = tid
         THEN <<Head(rows)>> \o ResourcesOfTable(Tail(rows), tid)
         ELSE ResourcesOfTable(Tail(rows), tid)

RECURSIVE WithoutIds(_, _)
WithoutIds(rows, ids) ==
    IF rows = <<>> THEN <<>>
    ELSE IF Head(rows).id \in ids THEN WithoutIds(Tail(rows), ids)
    ELSE <<Head(rows)>> \o WithoutIds(Tail(rows), ids)

RECURSIVE WithIds(_, _)
WithIds(adds, last) ==
    IF adds = <<>> THEN <<>>
    ELSE <<[id |-> last + 1, vmid |-> Head(adds).vmid, table_id |-> Head(adds).table_id,
            node |-> Head(adds).node, type |-> Head(adds).type]>>
         \o WithIds(Tail(adds), last + 1)

\* db.commit(): the pending deletes, then the pending inserts with fresh ids
Committed(rows, adds, dels) ==
    WithoutIds(rows, dels) \o WithIds(adds, MaxRowId(rows))

InitWith(sc, fl) ==
    /\ flows = fl
    /\ nodeStatus = [n \in Nodes |-> IF n \in sc.online THEN "online" ELSE "offline"]
    /\ templates = sc.templates
    /\ tables = <<>>
    /\ resources = <<>>
    /\ sessAdd = <<>>
    /\ sessDel = {}
    /\ nextid = 100
    /\ cluster = [v \in {} |-> 0]
    /\ task = NoTask
    /\ calls = <<>>
    /\ pc = "idle"
    /\ op = NoOp
    /\ bulk = NoBulk
    /\ target_node = NoName
    /\ table = NoTable
    /\ idx = 0
    /\ new_id = 0
    /\ todo = <<>>
    /\ err = NoErr
    /\ result = NoResult
    /\ pre = [tables |-> <<>>, resources |-> <<>>]
    /\ added = <<>>
    /\ prev = 0

Flows == {1, 2}

NoFlow == [T |-> 0, pc |-> "none", target_node |-> NoName, table |-> NoTable,
           sawNone |-> FALSE, idx |-> 0, new_id |-> 0, sess |-> <<>>, rows |-> <<>>,
           task |-> NoTask, err |-> NoErr, cloned |-> {}]

Init == \E sc \in Scenarios : InitWith(sc, [f \in Flows |-> NoFlow])

Ended == pc \in {"idle", "done", "failed"}

\* an exception leaves the handler: the request ends, and the request's session
\* is closed with what it had pending
Raise(kind, detail) ==
    /\ pc' = "failed"
    /\ err' = [kind |-> kind, detail |-> detail]
    /\ sessAdd' = <<>>
    /\ sessDel' = {}

\* a request arrives: its handler starts with fresh locals and a fresh session
Enter(kind, table_num) ==
    /\ op' = [kind |-> kind, table_num |-> table_num]
    /\ pre' = [tables |-> tables, resources |-> resources]
    /\ added' = <<>>
    /\ target_node' = NoName
    /\ table' = NoTable
    /\ idx' = 0
    /\ new_id' = 0
    /\ todo' = <<>>
    /\ task' = NoTask
    /\ err' = NoErr
    /\ result' = NoResult

KaliTemplates == TemplatesByRole(templates, "attacker")
TargetTemplates == FirstTwo(TemplatesByRole(templates, "target"))

\* the clones one deploy_table makes: the attacker's, and one for each container
\* among the target templates it considers
ClonesPerDeploy ==
    (IF KaliTemplates = <<>> THEN 0 ELSE 1)
        + Cardinality({i \in DOMAIN TargetTemplates : TargetTemplates[i].is_container})

\* the cluster has ids left for n deployments
IdsLeft(n) == nextid + n * ClonesPerDeploy - 1 <= MaxVmid

Arrive ==
    /\ Ended
    /\ prev' = IF op.kind = "delete" /\ pc = "done" THEN op.table_num ELSE 0
    /\ calls' = <<>>
    /\ UNCHANGED <<env, ledger, session, nextid, cluster>>

\* ---- the cluster ----
Resource(node, type, source) ==
    [node |-> node, type |-> type, source |-> source, ip |-> <<>>, tag |-> 0, gw |-> <<>>]

Remove(f, v) == [k \in DOMAIN f \ {v} |-> f[k]]

\* what a task that ended OK has done to the cluster
Effect(t) ==
    CASE t.kind = "clone" -> cluster @@ (t.vmid :> Resource(t.node, t.type, t.source))
      [] t.kind = "stop" -> cluster
      [] t.kind = "delete" -> Remove(cluster, t.vmid)

\* the cluster ends the running task, with an exit status
TaskFinish ==
    /\ task.status = "running"
    /\ \E e \in ExitStatuses :
        /\ task' = [task EXCEPT !.status = "stopped", !.exitstatus = e]
        /\ cluster' = IF e = "OK" THEN Effect(task) ELSE cluster
        /\ nextid' = IF e = "OK" /\ task.kind = "clone" /\ task.vmid >= nextid
                     THEN task.vmid + 1 ELSE nextid
    /\ UNCHANGED <<env, ledger, session, calls, pc, op, bulk, locals, err,
                   result, pre, added, prev>>

WaitPcs == {"kali_wait", "tgt_wait", "x_stop_wait", "x_delete_wait"}

\* ---- proxmox_service.py ----
\* get_px: the first endpoint that answers px.nodes.get(), or an Exception
GetPx ==
    /\ pc \in {"d_px", "x_px"}
    /\ \E ok \in BOOLEAN :
        IF ok
        THEN /\ calls' = Append(calls, Call("nodes.get", NoName, 0))
             /\ pc' = IF pc = "d_px" THEN "d_select" ELSE "x_lookup"
             /\ UNCHANGED <<err, session>>
        ELSE /\ Raise("Exception", "All Proxmox nodes are unreachable!")
             /\ UNCHANGED calls
    /\ UNCHANGED <<env, ledger, nextid, cluster, task, op, bulk, locals, result, pre, added, prev>>

AfterWait(p) ==
    CASE p = "kali_wait" -> "kali_config"
      [] p = "tgt_wait" -> "tgt_config"
      [] p = "x_stop_wait" -> "x_delete"
      [] p = "x_delete_wait" -> "x_row"

TaskFailedMut(t) == FALSE

\* 'exitstatus' in task and task['exitstatus'] != 'OK'
TaskFailed(t) == t.exitstatus # "" /\ t.exitstatus # "OK"

PollMut ==
    /\ pc \in WaitPcs
    /\ task.status = "running"
    /\ Raise("TaskTimeout", "")
    /\ UNCHANGED <<env, ledger, nextid, cluster, task, calls, op, bulk, locals,
                   result, pre, added, prev>>

\* wait_for_task: a poll that finds the task running, and time.sleep(1)
Poll ==
    /\ pc \in WaitPcs
    /\ task.status = "running"
    /\ task' = [task EXCEPT !.polls = 1 - @]
    /\ UNCHANGED <<env, ledger, session, nextid, cluster, calls, pc, op, bulk, locals, err,
                   result, pre, added, prev>>

\* wait_for_task: the poll that finds the task stopped
WaitForTask ==
    /\ pc \in WaitPcs
    /\ task.status = "stopped"
    /\ calls' = Append(calls, Call("tasks.status", task.node, task.vmid))
    /\ task' = [task EXCEPT !.polls = 0]
    /\ IF TaskFailed(task)
       THEN Raise("HTTPException", task.exitstatus)
       ELSE /\ pc' = AfterWait(pc)
            /\ UNCHANGED <<err, session>>
    /\ UNCHANGED <<env, ledger, nextid, cluster, op, bulk, locals, result, pre, added, prev>>

\* ---- main.py: deploy_table ----
DeployBegin ==
    /\ Arrive
    /\ IdsLeft(1)
    /\ \E t \in TableNums : Enter("deploy", t)
    /\ bulk' = NoBulk
    /\ pc' = "d_px"

\* lines 122-126: vlan, node_list, target_node, gw
DeploySelectNode ==
    /\ pc = "d_select"
    /\ \E listing \in Listings :
        /\ calls' = Append(calls, Call("nodes.get", NoName, 0))
        /\ IF OnlineNames(listing) = <<>>
           THEN /\ Raise("ZeroDivisionError", "integer division or modulo by zero")
                /\ UNCHANGED target_node
           ELSE /\ target_node' = SelectNode(op.table_num, listing)
                /\ pc' = "d_upsert"
                /\ UNCHANGED <<err, session>>
    /\ UNCHANGED <<env, ledger, nextid, cluster, task, op, bulk, table, idx, new_id, todo,
                   result, pre, added, prev>>

\* lines 129-134: the TableLab row of the table, created and committed when absent
DeployUpsertTable ==
    /\ pc = "d_upsert"
    /\ LET found == TableByNumber(tables, op.table_num)
           row == [id |-> MaxRowId(tables) + 1, table_number |-> op.table_num,
                   vlan_id |-> Vlan(op.table_num)]
       IN  IF found = NoTable
           THEN /\ tables' = Append(tables, row)
                /\ resources' = Committed(resources, sessAdd, sessDel)
                /\ sessAdd' = <<>>
                /\ sessDel' = {}
                /\ table' = row
           ELSE /\ table' = found
                /\ UNCHANGED <<ledger, session>>
    /\ pc' = "kali_clone"
    /\ UNCHANGED <<env, nextid, cluster, task, calls, op, bulk, target_node, idx, new_id,
                   todo, err, result, pre, added, prev>>

CloneTask(node, vmid, type, source) ==
    [kind |-> "clone", node |-> node, vmid |-> vmid, type |-> type, source |-> source,
     status |-> "running", exitstatus |-> "", polls |-> 0]

DeployKaliCloneMut ==
    /\ pc = "kali_clone"
    /\ IF KaliTemplates = <<>>
          \/ \E v \in DOMAIN cluster : cluster[v].ip = KaliIp(Vlan(op.table_num))
       THEN /\ pc' = "tgt_next"
            /\ UNCHANGED <<new_id, task, calls>>
       ELSE /\ new_id' = nextid
            /\ calls' = calls \o <<Call("nextid", NoName, 0),
                                   Call("qemu.clone", target_node, nextid)>>
            /\ task' = CloneTask(target_node, nextid, "qemu", KaliTemplates[1].pve_vmid)
            /\ pc' = "kali_wait"
    /\ UNCHANGED <<env, ledger, session, nextid, cluster, op, bulk, target_node, table, idx,
                   todo, err, result, pre, added, prev>>

\* lines 137-142: without an attacker template the step is skipped
DeployKaliClone ==
    /\ pc = "kali_clone"
    /\ IF KaliTemplates = <<>>
       THEN /\ pc' = "tgt_next"
            /\ UNCHANGED <<new_id, task, calls>>
       ELSE /\ new_id' = nextid
            /\ calls' = calls \o <<Call("nextid", NoName, 0),
                                   Call("qemu.clone", target_node, nextid)>>
            /\ task' = CloneTask(target_node, nextid, "qemu", KaliTemplates[1].pve_vmid)
            /\ pc' = "kali_wait"
    /\ UNCHANGED <<env, ledger, session, nextid, cluster, op, bulk, target_node, table, idx,
                   todo, err, result, pre, added, prev>>

Configure(vmid, ip, vlan, gw) ==
    [cluster EXCEPT ![vmid].ip = ip, ![vmid].tag = vlan, ![vmid].gw = gw]

\* lines 144-147
DeployKaliConfig ==
    /\ pc = "kali_config"
    /\ calls' = Append(calls, Call("qemu.config", target_node, new_id))
    /\ cluster' = Configure(new_id, KaliIp(Vlan(op.table_num)), Vlan(op.table_num),
                            Gateway(Vlan(op.table_num)))
    /\ pc' = "kali_add"
    /\ UNCHANGED <<env, ledger, session, nextid, task, op, bulk, locals, err, result,
                   pre, added, prev>>

NewRowMut(type) == [vmid |-> nextid, table_id |-> table.id, node |-> target_node, type |-> type]

\* models.DeployedResource(vmid=new_id, table_id=table.id, node=target_node, type=...)
NewRow(type) == [vmid |-> new_id, table_id |-> table.id, node |-> target_node, type |-> type]

\* line 148
DeployKaliAdd ==
    /\ pc = "kali_add"
    /\ sessAdd' = Append(sessAdd, NewRow("qemu"))
    /\ added' = Append(added, NewRow("qemu"))
    /\ pc' = "kali_start"
    /\ UNCHANGED <<env, ledger, sessDel, nextid, cluster, task, calls, op, bulk, locals,
                   err, result, pre, prev>>

\* line 149
DeployKaliStart ==
    /\ pc = "kali_start"
    /\ calls' = Append(calls, Call("qemu.start", target_node, new_id))
    /\ pc' = "tgt_next"
    /\ UNCHANGED <<env, ledger, session, nextid, cluster, task, op, bulk, locals, err,
                   result, pre, added, prev>>

\* lines 153-159: the next of the first two target templates; an id is allocated
\* for it, and it is cloned when it is a container
DeployTargetNext ==
    /\ pc = "tgt_next"
    /\ IF idx >= Len(TargetTemplates)
       THEN /\ pc' = "d_commit"
            /\ UNCHANGED <<new_id, idx, task, calls>>
       ELSE /\ new_id' = nextid
            /\ IF TargetTemplates[idx + 1].is_container
               THEN /\ calls' = calls \o <<Call("nextid", NoName, 0),
                                           Call("lxc.clone", target_node, nextid)>>
                    /\ task' = CloneTask(target_node, nextid, "lxc",
                                          TargetTemplates[idx + 1].pve_vmid)
                    /\ pc' = "tgt_wait"
                    /\ UNCHANGED idx
               ELSE /\ calls' = Append(calls, Call("nextid", NoName, 0))
                    /\ idx' = idx + 1
                    /\ pc' = "tgt_next"
                    /\ UNCHANGED task
    /\ UNCHANGED <<env, ledger, session, nextid, cluster, op, bulk, target_node, table, todo,
                   err, result, pre, added, prev>>

DeployTargetConfigMut ==
    /\ pc = "tgt_config"
    /\ calls' = Append(calls, Call("lxc.config", target_node, new_id))
    /\ cluster' = Configure(new_id, TargetIp(Vlan(op.table_num), LastOctet(idx)),
                            Vlan(op.table_num), Gateway(Vlan(op.table_num)))
    /\ pc' = "tgt_start"
    /\ UNCHANGED <<env, ledger, session, nextid, task, op, bulk, locals, err, result,
                   pre, added, prev>>

\* lines 161-163
DeployTargetConfig ==
    /\ pc = "tgt_config"
    /\ calls' = Append(calls, Call("lxc.config", target_node, new_id))
    /\ cluster' = Configure(new_id, TargetIp(Vlan(op.table_num), LastOctet(idx)),
                            Vlan(op.table_num), Gateway(Vlan(op.table_num)))
    /\ pc' = "tgt_add"
    /\ UNCHANGED <<env, ledger, session, nextid, task, op, bulk, locals, err, result,
                   pre, added, prev>>

\* line 164
DeployTargetAdd ==
    /\ pc = "tgt_add"
    /\ sessAdd' = Append(sessAdd, NewRow("lxc"))
    /\ added' = Append(added, NewRow("lxc"))
    /\ pc' = "tgt_start"
    /\ UNCHANGED <<env, ledger, sessDel, nextid, cluster, task, calls, op, bulk, locals,
                   err, result, pre, prev>>

\* line 165, and the loop's step
DeployTargetStart ==
    /\ pc = "tgt_start"
    /\ calls' = Append(calls, Call("lxc.start", target_node, new_id))
    /\ idx' = idx + 1
    /\ pc' = "tgt_next"
    /\ UNCHANGED <<env, ledger, session, nextid, cluster, task, op, bulk, target_node, table,
                   new_id, todo, err, result, pre, added, prev>>

\* lines 167-169: the one commit of the resource rows, and the return
DeployCommit ==
    /\ pc = "d_commit"
    /\ resources' = Committed(resources, sessAdd, sessDel)
    /\ sessAdd' = <<>>
    /\ sessDel' = {}
    /\ result' = [status |-> "deployed", table_num |-> op.table_num, node |-> target_node]
    /\ pc' = IF bulk.active THEN "b_collect" ELSE "done"
    /\ UNCHANGED <<env, tables, nextid, cluster, task, calls, op, bulk, locals, err,
                   pre, added, prev>>

\* ---- main.py: deploy_bulk ----
BulkBegin ==
    /\ Arrive
    /\ \E s \in TableNums, e \in TableNums :
        /\ IdsLeft(IF e < s THEN 0 ELSE e - s + 1)
        /\ bulk' = [active |-> TRUE, start |-> s, i |-> s, end |-> e, results |-> <<>>,
                    attempted |-> <<>>]
    /\ op' = NoOp
    /\ pre' = [tables |-> tables, resources |-> resources]
    /\ added' = <<>>
    /\ err' = NoErr
    /\ result' = NoResult
    /\ task' = NoTask
    /\ target_node' = NoName
    /\ table' = NoTable
    /\ idx' = 0
    /\ new_id' = 0
    /\ todo' = <<>>
    /\ pc' = "b_loop"

\* lines 111-112: the next i of range(start_table, end_table + 1), or line 114
BulkLoop ==
    /\ pc = "b_loop"
    /\ IF bulk.i > bulk.end
       THEN /\ pc' = "done"
            /\ UNCHANGED <<op, bulk, locals, task, err, result, pre, added>>
       ELSE /\ Enter("deploy", bulk.i)
            /\ bulk' = [bulk EXCEPT !.attempted = Append(@, bulk.i)]
            /\ pc' = "d_px"
    /\ UNCHANGED <<env, ledger, session, nextid, cluster, calls, prev>>

\* line 113
BulkCollect ==
    /\ pc = "b_collect"
    /\ bulk' = [bulk EXCEPT !.results = Append(@, result), !.i = @ + 1]
    /\ pc' = "b_loop"
    /\ UNCHANGED <<env, ledger, session, nextid, cluster, task, calls, op, locals, err,
                   result, pre, added, prev>>

\* ---- main.py: delete_table ----
DeleteBegin ==
    /\ Arrive
    /\ \E t \in TableNums : Enter("delete", t)
    /\ bulk' = NoBulk
    /\ pc' = "x_px"

\* lines 177-178: table is None for an unknown table number, and table.id raises
DeleteLookup ==
    /\ pc = "x_lookup"
    /\ LET found == TableByNumber(tables, op.table_num)
       IN  IF found = NoTable
           THEN /\ Raise("AttributeError", "'NoneType' object has no attribute 'id'")
                /\ UNCHANGED <<table, todo>>
           ELSE /\ table' = found
                /\ todo' = ResourcesOfTable(resources, found.id)
                /\ pc' = "x_stop"
                /\ UNCHANGED <<err, session>>
    /\ UNCHANGED <<env, ledger, nextid, cluster, task, calls, op, bulk, target_node, idx,
                   new_id, result, pre, added, prev>>

Kind(res) == IF res.type = "qemu" THEN "qemu" ELSE "lxc"

NodeOfMut(res) == SelectNode(op.table_num, CHOOSE l \in Listings : TRUE)

\* px.nodes(res.node)
NodeOf(res) == res.node

DeleteStopMut ==
    /\ pc = "x_stop"
    /\ pc' = IF todo = <<>> THEN "x_commit" ELSE "x_delete"
    /\ UNCHANGED <<env, ledger, session, nextid, cluster, task, calls, op, bulk, locals, err,
                   result, pre, added, prev>>

\* lines 180-182, 187: stop of the next resource; the cluster refuses the call
\* for a resource it does not have
DeleteStop ==
    /\ pc = "x_stop"
    /\ IF todo = <<>>
       THEN /\ pc' = "x_commit"
            /\ UNCHANGED <<calls, task, err, session>>
       ELSE LET res == Head(todo)
            IN  /\ calls' = Append(calls, Call(Kind(res) \o ".stop", NodeOf(res), res.vmid))
                /\ IF res.vmid \in DOMAIN cluster
                   THEN /\ task' = [kind |-> "stop", node |-> NodeOf(res), vmid |-> res.vmid,
                                    type |-> res.type, source |-> 0,
                                    status |-> "running", exitstatus |-> "", polls |-> 0]
                        /\ pc' = "x_stop_wait"
                        /\ UNCHANGED <<err, session>>
                   ELSE /\ Raise("ResourceException", "does not exist")
                        /\ UNCHANGED task
    /\ UNCHANGED <<env, ledger, nextid, cluster, op, bulk, locals, result, pre, added, prev>>

\* lines 184, 189
DeleteDelete ==
    /\ pc = "x_delete"
    /\ LET res == Head(todo)
       IN  /\ calls' = Append(calls, Call(Kind(res) \o ".delete", NodeOf(res), res.vmid))
           /\ task' = [kind |-> "delete", node |-> NodeOf(res), vmid |-> res.vmid,
                       type |-> res.type, source |-> 0, status |-> "running",
                       exitstatus |-> "", polls |-> 0]
    /\ pc' = "x_delete_wait"
    /\ UNCHANGED <<env, ledger, session, nextid, cluster, op, bulk, locals, err, result,
                   pre, added, prev>>

\* line 191, and the loop's step
DeleteRow ==
    /\ pc = "x_row"
    /\ sessDel' = sessDel \cup {Head(todo).id}
    /\ todo' = Tail(todo)
    /\ pc' = "x_stop"
    /\ UNCHANGED <<env, ledger, sessAdd, nextid, cluster, task, calls, op, bulk,
                   target_node, table, idx, new_id, err, result, pre, added, prev>>

DeleteCommitMut ==
    /\ pc = "x_commit"
    /\ resources' = Committed(resources, sessAdd, sessDel)
    /\ tables' = WithoutIds(tables, {table.id})
    /\ sessAdd' = <<>>
    /\ sessDel' = {}
    /\ result' = [status |-> "purged", table_num |-> op.table_num, node |-> NoName]
    /\ pc' = "done"
    /\ UNCHANGED <<env, nextid, cluster, task, calls, op, bulk, locals, err,
                   pre, added, prev>>

\* lines 193-195: the one commit of the row deletions, and the return
DeleteCommit ==
    /\ pc = "x_commit"
    /\ resources' = Committed(resources, sessAdd, sessDel)
    /\ sessAdd' = <<>>
    /\ sessDel' = {}
    /\ result' = [status |-> "purged", table_num |-> op.table_num, node |-> NoName]
    /\ pc' = "done"
    /\ UNCHANGED <<env, tables, nextid, cluster, task, calls, op, bulk, locals, err,
                   pre, added, prev>>

Next ==
    \/ DeployBegin
    \/ GetPx
    \/ DeploySelectNode
    \/ DeployUpsertTable
    \/ DeployKaliClone
    \/ DeployKaliConfig
    \/ DeployKaliAdd
    \/ DeployKaliStart
    \/ DeployTargetNext
    \/ DeployTargetConfig
    \/ DeployTargetAdd
    \/ DeployTargetStart
    \/ DeployCommit
    \/ BulkBegin
    \/ BulkLoop
    \/ BulkCollect
    \/ DeleteBegin
    \/ DeleteLookup
    \/ DeleteStop
    \/ DeleteDelete
    \/ DeleteRow
    \/ DeleteCommit
    \/ Poll
    \/ WaitForTask
    \/ TaskFinish

Spec == Init /\ [][Next]_vars

\* ---- the handlers keep running; the cluster may leave a task running ----
\* a step of the handler of the deploy_table or delete_table request in progress
Step ==
    \/ GetPx
    \/ DeploySelectNode
    \/ DeployUpsertTable
    \/ DeployKaliClone
    \/ DeployKaliConfig
    \/ DeployKaliAdd
    \/ DeployKaliStart
    \/ DeployTargetNext
    \/ DeployTargetConfig
    \/ DeployTargetAdd
    \/ DeployTargetStart
    \/ DeployCommit
    \/ DeleteLookup
    \/ DeleteStop
    \/ DeleteDelete
    \/ DeleteRow
    \/ DeleteCommit
    \/ Poll
    \/ WaitForTask

InitFair ==
    InitWith([online |-> {proxmox2, proxmox1, proxmox3},
              templates |-> <<Tmpl("Kali", 9000, "attacker", FALSE),
                              Tmpl("Web", 9001, "target", TRUE),
                              Tmpl("Db", 9002, "target", TRUE)>>],
             [f \in Flows |-> NoFlow])

\* single deploy_table and delete_table requests
FairNext == DeployBegin \/ DeleteBegin \/ TaskFinish \/ Step

\* the handler takes its next step; nothing makes the cluster end a task
FairSpec == InitFair /\ [][FairNext]_vars /\ WF_vars(Step)

\* ---- the cluster with a node that goes offline ----
FlakyNodes == {proxmox3}

\* a node goes offline
NodeChange ==
    /\ \E n \in FlakyNodes :
        /\ nodeStatus[n] = "online"
        /\ nodeStatus' = [nodeStatus EXCEPT ![n] = "offline"]
    /\ UNCHANGED <<templates, flows, ledger, session, nextid, cluster, task, calls, pc, op,
                   bulk, locals, err, result, pre, added, prev>>

InitNodes ==
    InitWith([online |-> {proxmox1, proxmox2, proxmox3},
              templates |-> <<Tmpl("Kali", 9000, "attacker", FALSE),
                              Tmpl("Web", 9001, "target", TRUE)>>],
             [f \in Flows |-> NoFlow])

NodesNext == Next \/ NodeChange

NodesSpec == InitNodes /\ [][NodesNext]_vars

\* ---- two deploy_table requests at the same time ----
\* Each request has its own session and its own locals; the ledger and the
\* cluster are shared.  The ledger enforces the unique constraints of models.py
\* (TableLab.table_number, DeployedResource.vmid) when a session commits.  The
\* cluster creates a resource id once: it refuses a clone under an id it has a
\* resource for, and of two clone tasks under one id one ends with an error.
seqvars == <<sessAdd, sessDel, task, calls, pc, op, bulk, locals, err, result, pre, added, prev>>

InitConc ==
    \E t1 \in TableNums, t2 \in TableNums :
        InitWith([online |-> {proxmox1, proxmox2, proxmox3},
                  templates |-> <<Tmpl("Kali", 9000, "attacker", FALSE),
                                  Tmpl("Web", 9001, "target", TRUE)>>],
                 [f \in Flows |-> [NoFlow EXCEPT !.T = IF f = 1 THEN t1 ELSE t2,
                                                  !.pc = "select"]])

\* an exception leaves the handler of request f
FRaise(f, kind, detail) ==
    [flows[f] EXCEPT !.pc = "failed", !.err = [kind |-> kind, detail |-> detail],
                     !.sess = <<>>]

\* lines 124-125
FSelect(f) ==
    /\ flows[f].pc = "select"
    /\ \E listing \in Listings :
        flows' = [flows EXCEPT ![f] =
                    IF OnlineNames(listing) = <<>>
                    THEN FRaise(f, "ZeroDivisionError", "integer division or modulo by zero")
                    ELSE [@ EXCEPT !.target_node = SelectNode(flows[f].T, listing),
                                   !.pc = "query"]]
    /\ UNCHANGED <<nodeStatus, templates, ledger, nextid, cluster, seqvars>>

\* lines 129-130
FQuery(f) ==
    /\ flows[f].pc = "query"
    /\ LET found == TableByNumber(tables, flows[f].T)
       IN  flows' = [flows EXCEPT ![f] =
                        [@ EXCEPT !.table = found,
                                  !.sawNone = (found = NoTable),
                                  !.pc = IF found = NoTable THEN "insert" ELSE "kali_id"]]
    /\ UNCHANGED <<nodeStatus, templates, ledger, nextid, cluster, seqvars>>

FInsertMut(f) ==
    /\ flows[f].pc = "insert"
    /\ LET row == [id |-> MaxRowId(tables) + 1, table_number |-> flows[f].T,
                   vlan_id |-> Vlan(flows[f].T)]
       IN  /\ tables' = Append(tables, row)
           /\ flows' = [flows EXCEPT ![f] = [@ EXCEPT !.table = row, !.pc = "kali_id"]]
    /\ UNCHANGED <<nodeStatus, templates, resources, nextid, cluster, seqvars>>

\* lines 131-134: the commit fails when the table number has a row by now
FInsert(f) ==
    /\ flows[f].pc = "insert"
    /\ LET row == [id |-> MaxRowId(tables) + 1, table_number |-> flows[f].T,
                   vlan_id |-> Vlan(flows[f].T)]
       IN  IF TableByNumber(tables, flows[f].T) # NoTable
           THEN /\ flows' = [flows EXCEPT ![f] =
                                FRaise(f, "IntegrityError", "tables.table_number")]
                /\ UNCHANGED tables
           ELSE /\ tables' = Append(tables, row)
                /\ flows' = [flows EXCEPT ![f] = [@ EXCEPT !.table = row, !.pc = "kali_id"]]
    /\ UNCHANGED <<nodeStatus, templates, resources, nextid, cluster, seqvars>>

\* lines 137-139
FKaliId(f) ==
    /\ flows[f].pc = "kali_id"
    /\ flows' = [flows EXCEPT ![f] =
                    IF KaliTemplates = <<>>
                    THEN [@ EXCEPT !.pc = "tgt_id"]
                    ELSE [@ EXCEPT !.new_id = nextid, !.pc = "kali_clone"]]
    /\ UNCHANGED <<nodeStatus, templates, ledger, nextid, cluster, seqvars>>

\* lines 153-156
FTargetId(f) ==
    /\ flows[f].pc = "tgt_id"
    /\ flows' = [flows EXCEPT ![f] =
                    IF @.idx >= Len(TargetTemplates)
                    THEN [@ EXCEPT !.pc = "commit"]
                    ELSE IF TargetTemplates[@.idx + 1].is_container
                         THEN [@ EXCEPT !.new_id = nextid, !.pc = "tgt_clone"]
                         ELSE [@ EXCEPT !.new_id = nextid, !.idx = @ + 1]]
    /\ UNCHANGED <<nodeStatus, templates, ledger, nextid, cluster, seqvars>>

\* lines 140-142, 157-159: clone.post under new_id
FClone(f) ==
    /\ flows[f].pc \in {"kali_clone", "tgt_clone"}
    /\ LET me == flows[f]
           kali == me.pc = "kali_clone"
           t == CloneTask(me.target_node, me.new_id, IF kali THEN "qemu" ELSE "lxc",
                          IF kali THEN KaliTemplates[1].pve_vmid
                          ELSE TargetTemplates[me.idx + 1].pve_vmid)
       IN  flows' = [flows EXCEPT ![f] =
                        IF me.new_id \in DOMAIN cluster
                        THEN [FRaise(f, "ResourceException", "already exists")
                                EXCEPT !.cloned = @ \cup {me.new_id}]
                        ELSE [@ EXCEPT !.task = t,
                                       !.cloned = @ \cup {me.new_id},
                                       !.pc = IF kali THEN "kali_wait" ELSE "tgt_wait"]]
    /\ UNCHANGED <<nodeStatus, templates, ledger, nextid, cluster, seqvars>>

\* the cluster ends the clone task of request f
FTaskFinish(f) ==
    /\ flows[f].task.status = "running"
    /\ \E e \in ExitStatuses :
        /\ e = "OK" => flows[f].task.vmid \notin DOMAIN cluster
        /\ flows' = [flows EXCEPT ![f].task.status = "stopped", ![f].task.exitstatus = e]
        /\ cluster' = IF e = "OK" THEN Effect(flows[f].task) ELSE cluster
        /\ nextid' = IF e = "OK" /\ flows[f].task.vmid >= nextid
                     THEN flows[f].task.vmid + 1 ELSE nextid
    /\ UNCHANGED <<nodeStatus, templates, ledger, seqvars>>

\* lines 143, 160: wait_for_task, the poll that finds the task stopped
FWait(f) ==
    /\ flows[f].pc \in {"kali_wait", "tgt_wait"}
    /\ flows[f].task.status = "stopped"
    /\ flows' = [flows EXCEPT ![f] =
                    IF TaskFailed(@.task)
                    THEN FRaise(f, "HTTPException", @.task.exitstatus)
                    ELSE [@ EXCEPT !.pc = IF @ = "kali_wait" THEN "kali_finish"
                                          ELSE "tgt_finish"]]
    /\ UNCHANGED <<nodeStatus, templates, ledger, nextid, cluster, seqvars>>

\* lines 144-149, 161-165: config.post, db.add, status.start.post
FFinish(f) ==
    /\ flows[f].pc \in {"kali_finish", "tgt_finish"}
    /\ LET me == flows[f]
           kali == me.pc = "kali_finish"
           vlan == Vlan(me.T)
           row == [vmid |-> me.new_id, table_id |-> me.table.id, node |-> me.target_node,
                   type |-> IF kali THEN "qemu" ELSE "lxc"]
       IN  /\ cluster' = Configure(me.new_id,
                                   IF kali THEN KaliIp(vlan)
                                   ELSE TargetIp(vlan, LastOctet(me.idx)),
                                   vlan, Gateway(vlan))
           /\ flows' = [flows EXCEPT ![f] =
                          [@ EXCEPT !.sess = Append(@, row),
                                    !.rows = Append(@, row),
                                    !.idx = IF kali THEN @ ELSE @ + 1,
                                    !.pc = "tgt_id"]]
    /\ UNCHANGED <<nodeStatus, templates, ledger, nextid, seqvars>>

\* line 167: the commit fails when a pending resource id has a row by now
FCommit(f) ==
    /\ flows[f].pc = "commit"
    /\ IF \E i \in DOMAIN flows[f].sess, r \in Rows(resources) : r.vmid = flows[f].sess[i].vmid
       THEN /\ flows' = [flows EXCEPT ![f] =
                            FRaise(f, "IntegrityError", "deployed_resources.vmid")]
            /\ UNCHANGED resources
       ELSE /\ resources' = Committed(resources, flows[f].sess, {})
            /\ flows' = [flows EXCEPT ![f] = [@ EXCEPT !.sess = <<>>, !.pc = "done"]]
    /\ UNCHANGED <<nodeStatus, templates, tables, nextid, cluster, seqvars>>

ConcNext ==
    \/ \E f \in Flows : FSelect(f)
    \/ \E f \in Flows : FQuery(f)
    \/ \E f \in Flows : FInsert(f)
    \/ \E f \in Flows : FKaliId(f)
    \/ \E f \in Flows : FTargetId(f)
    \/ \E f \in Flows : FClone(f)
    \/ \E f \in Flows : FTaskFinish(f)
    \/ \E f \in Flows : FWait(f)
    \/ \E f \in Flows : FFinish(f)
    \/ \E f \in Flows : FCommit(f)

ConcSpec == InitConc /\ [][ConcNext]_vars

TypeOK ==
    /\ pc \in {"idle", "done", "failed", "d_px", "d_select", "d_upsert", "kali_clone",
               "kali_wait", "kali_config", "kali_add", "kali_start", "tgt_next",
               "tgt_wait", "tgt_config", "tgt_add", "tgt_start", "d_commit",
               "b_loop", "b_collect", "x_px", "x_lookup", "x_stop", "x_stop_wait",
               "x_delete", "x_delete_wait", "x_row", "x_commit"}
    /\ DOMAIN cluster \subseteq VmIds
    /\ nextid \in 100..(MaxVmid + 1)

\* ---- properties ----
Online == {n \in Nodes : nodeStatus[n] = "online"}

\* deploy_table has returned normally (to the caller, or to deploy_bulk)
DeployReturned == op.kind = "deploy" /\ pc \in {"done", "b_collect"}

\* one attacker template and two target templates, both containers
FullRegistry ==
    /\ Len(TemplatesByRole(templates, "attacker")) = 1
    /\ Len(TemplatesByRole(templates, "target")) = 2
    /\ \A i \in 1..2 : TemplatesByRole(templates, "target")[i].is_container

\* C1: a deploy_table(T) that returns, with one attacker and two container target
\* templates registered, has appended exactly three rows to the committed
\* DeployedResource rows: a qemu and two lxc, owned by the TableLab row of T, on
\* the selected node, whose resources carry 10.10.(50+T).100, .101, .102 in that
\* order, the tag 50+T and the gateway 10.10.(50+T).1.
C1_DeployAddsThreeRows ==
    (DeployReturned /\ FullRegistry) =>
        LET T == op.table_num
            n == Len(pre.resources)
        IN  /\ Len(resources) = n + 3
            /\ SubSeq(resources, 1, n) = pre.resources
            /\ \A i \in 1..3 :
                LET row == resources[n + i]
                IN  /\ \E t \in Rows(tables) :
                            t.table_number = T /\ t.id = row.table_id
                    /\ row.type = (IF i = 1 THEN "qemu" ELSE "lxc")
                    /\ row.node = target_node
                    /\ target_node \in Online
                    /\ row.vmid \in DOMAIN cluster
                    /\ cluster[row.vmid].node = target_node
                    /\ cluster[row.vmid].type = row.type
                    /\ cluster[row.vmid].ip = <<10, 10, 50 + T, 99 + i>>
                    /\ cluster[row.vmid].tag = 50 + T
                    /\ cluster[row.vmid].gw = <<10, 10, 50 + T, 1>>

C1_Witness ==
    /\ DeployReturned
    /\ FullRegistry
    /\ pc = "done"
    /\ Len(resources) = Len(pre.resources) + 3

\* C2: when a clone task ends with a non-OK exit status, deploy_table stops, and
\* every row it had given to db.add before is among the committed rows once it has
\* ended, for a resource that is still on the cluster.
C2_RowsSurviveCloneFailure ==
    (op.kind = "deploy" /\ pc = "failed" /\ err.kind = "HTTPException"
        /\ task.kind = "clone") =>
        \A i \in DOMAIN added :
            /\ \E r \in Rows(resources) :
                    r.vmid = added[i].vmid /\ r.table_id = added[i].table_id
            /\ added[i].vmid \in DOMAIN cluster

\* C3: when a stop or delete task fails in delete_table, the committed rows of the
\* table afterwards are the rows of the resources the cluster still has: no row
\* is left for a resource this teardown has deleted on the cluster.
C3_FailedTeardownLedger ==
    (op.kind = "delete" /\ pc = "failed" /\ err.kind = "HTTPException") =>
        \A r \in Rows(pre.resources) :
            r.table_id = table.id => (r \in Rows(resources) <=> r.vmid \in DOMAIN cluster)

RECURSIVE Range(_, _)
Range(a, b) == IF a > b THEN <<>> ELSE <<a>> \o Range(a + 1, b)

\* C4: a deploy_bulk(start, end) that has ended, normally or after a failed cluster
\* task, has called deploy_table for every table number of start..end in ascending
\* order, and holds one outcome for each.
C4_BulkAttemptsAll ==
    (bulk.active /\ pc \in {"done", "failed"} /\ err.kind \in {"none", "HTTPException"}) =>
        /\ bulk.attempted = Range(bulk.start, bulk.end)
        /\ Len(bulk.results) = Len(Range(bulk.start, bulk.end))

\* C5: a delete_table(T) that returns has left no committed DeployedResource row
\* of T and has left the TableLab rows as they were, the row of T among them; the
\* deploy_table(T) of the next request uses that row, whose vlan_id is 50+T, adds
\* no TableLab row, and gives its new rows that row's id.
C5_TeardownKeepsTable ==
    /\ (op.kind = "delete" /\ pc = "done") =>
            /\ tables = pre.tables
            /\ table \in Rows(tables)
            /\ table.table_number = op.table_num
            /\ \A r \in Rows(resources) : r.table_id # table.id
    /\ (op.kind = "deploy" /\ prev = op.table_num /\ table # NoTable) =>
            /\ tables = pre.tables
            /\ table \in Rows(pre.tables)
            /\ table.table_number = op.table_num
            /\ table.vlan_id = 50 + op.table_num
            /\ \A i \in DOMAIN added : added[i].table_id = table.id
            /\ DeployReturned =>
                 \A i \in DOMAIN added : \E r \in Rows(resources) :
                    r.vmid = added[i].vmid /\ r.table_id = table.id

C5_Witness ==
    /\ op.kind = "deploy"
    /\ prev = op.table_num
    /\ pc = "done"
    /\ added # <<>>

\* C6: a delete_table(T) for a table number without a TableLab row, on a cluster
\* that can be reached, ends with the TableNotFound error and has made no call to
\* the cluster.
C6_UnknownTableNoCalls ==
    (op.kind = "delete" /\ pc \in {"done", "failed"} /\ err.kind # "Exception"
        /\ TableByNumber(pre.tables, op.table_num) = NoTable) =>
        /\ pc = "failed"
        /\ err.kind = "TableNotFound"
        /\ calls = <<>>

\* C7: the node deploy_table(T) has selected is an online node, and the number of
\* online nodes whose name is lexicographically smaller is T mod n, for n the
\* number of online nodes: whatever the order of the cluster's listing.
C7_NodeSelection ==
    (op.kind = "deploy" /\ target_node # NoName) =>
        /\ target_node \in Online
        /\ Cardinality({m \in Online : StrLess(m, target_node)})
             = op.table_num % Cardinality(Online)

C7_Witness ==
    /\ op.kind = "deploy"
    /\ op.table_num = 4
    /\ Online = {proxmox2, proxmox10}
    /\ target_node = proxmox10

\* C8 as stated: with proxmox1, proxmox2 and proxmox3 online, table 4 goes to proxmox3.
C8_ChoosesProxmox3 ==
    (op.kind = "deploy" /\ op.table_num = 4 /\ target_node # NoName
        /\ Online = {proxmox2, proxmox1, proxmox3}) =>
        target_node = proxmox3

\* C8, amended: with proxmox1, proxmox2 and proxmox3 online, table 4 goes to
\* proxmox2, the node at index 4 mod 3 = 1 of [proxmox1, proxmox2, proxmox3].
C8_ChoosesProxmox2 ==
    (op.kind = "deploy" /\ op.table_num = 4 /\ target_node # NoName
        /\ Online = {proxmox2, proxmox1, proxmox3}) =>
        target_node = proxmox2

C8_Witness ==
    /\ op.kind = "deploy"
    /\ op.table_num = 4
    /\ Online = {proxmox2, proxmox1, proxmox3}
    /\ target_node # NoName
    /\ pc = "d_upsert"

\* C9: a deploy_table that has reached the cluster and found no node online ends
\* with the NoAvailableNodes error.
C9_NoAvailableNodes ==
    (op.kind = "deploy" /\ pc = "failed" /\ calls # <<>> /\ Online = {}) =>
        err.kind = "NoAvailableNodes"

\* C10: the committed TableLab rows never hold two rows with the same table_number,
\* and the vlan_id of every row is 50 + its table_number.
C10_TableRows ==
    \A i, j \in DOMAIN tables :
        /\ tables[i].table_number = tables[j].table_number => i = j
        /\ tables[i].vlan_id = 50 + tables[i].table_number

\* table T is deployed again while the rows of its first deployment are present
C10_Witness ==
    /\ op.kind = "deploy"
    /\ pc = "done"
    /\ \E r \in Rows(pre.resources) : r.table_id = table.id
    /\ Len(resources) > Len(pre.resources)

\* a step taken while wait_for_task runs, against what its loop allows
WaiterStep ==
    pc \in WaitPcs =>
        /\ (pc' # pc) => task.status = "stopped"
        /\ (pc' # pc /\ task.exitstatus # "OK") =>
                (/\ pc' = "failed"
                 /\ err'.kind = "HTTPException"
                 /\ err'.detail = task.exitstatus)
        /\ (pc' \notin {pc, "failed"}) =>
                (/\ task.status = "stopped"
                 /\ task.exitstatus = "OK"
                 /\ pc' = AfterWait(pc))

\* C11: wait_for_task leaves its loop only on a poll that finds the task stopped;
\* when the task has stopped with an exit status other than OK it ends with the
\* HTTPException that carries that exit status; and it returns to its caller
\* only when the task has stopped with the exit status OK.
C11_TaskWaiter == [][WaiterStep]_vars

\* the waiter has raised for a stop task that ended with an error
C11_Witness ==
    /\ pc = "failed"
    /\ err = [kind |-> "HTTPException", detail |-> "ERR"]
    /\ task.kind = "stop"
    /\ task.status = "stopped"
    /\ task.polls = 0

\* the calls of the request so far that are call c for resource id v
CallsOf(c, v) == {i \in DOMAIN calls : calls[i].call \in c /\ calls[i].vmid = v}

CloneCalls == {"qemu.clone", "lxc.clone"}
ConfigCalls == {"qemu.config", "lxc.config"}
StartCalls == {"qemu.start", "lxc.start"}
StopCalls == {"qemu.stop", "lxc.stop"}
DeleteCalls == {"qemu.delete", "lxc.delete"}

\* the rows the request's deploy_table calls have written so far
Written == Rows(added) \cup Rows(resources)

\* C12 as stated: the row of a resource is written before its config.post call.
C12_RowBeforeConfigure ==
    (op.kind = "deploy" /\ pc # "failed") =>
        \A i \in DOMAIN calls :
            calls[i].call \in ConfigCalls => \E r \in Written : r.vmid = calls[i].vmid

\* C12, amended: deploy_table writes the row of a resource after wait_for_task has
\* returned for its clone task and after its config.post call, and before its
\* start call: a row given to db.add has the clone call, the poll that found the
\* clone stopped and the config call behind it, in this order, for a resource the
\* cluster has; and a start call is made only for a resource whose row is written.
C12_RowAfterConfigure ==
    op.kind = "deploy" =>
        /\ \A k \in DOMAIN added :
                LET v == added[k].vmid
                IN  /\ v \in DOMAIN cluster
                    /\ \E a \in CallsOf(CloneCalls, v), b \in CallsOf({"tasks.status"}, v),
                          c \in CallsOf(ConfigCalls, v) : a < b /\ b < c
        /\ \A i \in DOMAIN calls :
                calls[i].call \in StartCalls => \E r \in Written : r.vmid = calls[i].vmid
        /\ pc \in {"kali_add", "tgt_add"} =>
                /\ CallsOf(ConfigCalls, new_id) # {}
                /\ CallsOf(StartCalls, new_id) = {}
                /\ \A r \in Written : r.vmid # new_id

\* the row of the second target is written, its start call not yet made
C12_Witness ==
    /\ pc = "tgt_start"
    /\ Len(added) = 3
    /\ CallsOf(ConfigCalls, new_id) # {}
    /\ CallsOf(StartCalls, new_id) = {}

\* the rows of the ledger: the committed ones and the ones pending in the session
LedgerRows == Rows(resources) \cup Rows(sessAdd)

\* no row for an id whose clone was not issued, is running, or has failed
NoRowWithoutClone ==
    /\ \A r \in LedgerRows : r.vmid >= 100 /\ r.vmid < nextid
    /\ (task.kind = "clone" /\ (task.status = "running" \/ task.exitstatus # "OK")) =>
            \A r \in LedgerRows : r.vmid # task.vmid
    /\ \A r \in Rows(sessAdd) : r.vmid \in DOMAIN cluster /\ cluster[r.vmid].node = r.node

\* a step that writes a row: db.add of the row of the clone wait_for_task has just
\* found stopped with OK, on the node of that clone; db.commit of pending rows
RowWritten ==
    /\ (sessAdd' # sessAdd /\ sessAdd' # <<>>) =>
            /\ Len(sessAdd') = Len(sessAdd) + 1
            /\ SubSeq(sessAdd', 1, Len(sessAdd)) = sessAdd
            /\ LET r == sessAdd'[Len(sessAdd')]
               IN  /\ task.kind = "clone"
                   /\ task.status = "stopped"
                   /\ task.exitstatus = "OK"
                   /\ r.vmid = task.vmid
                   /\ r.node = task.node
                   /\ CallsOf({"tasks.status"}, r.vmid) # {}
                   /\ r.vmid \in DOMAIN cluster
                   /\ cluster[r.vmid].node = r.node
    /\ \A r \in Rows(resources') \ Rows(resources) :
            \E q \in Rows(sessAdd) : q.vmid = r.vmid /\ q.node = r.node

\* C13: the ledger gets a DeployedResource row only for a resource id whose clone
\* task wait_for_task has found stopped with OK, on the node the row names; it
\* holds no row for an id whose clone was not issued, is running, or has failed.
C13_RowsOnlyForClones == []NoRowWithoutClone /\ [][RowWritten]_vars

\* the row of the attacker VM is pending, its clone task stopped with OK
C13_Witness ==
    /\ pc = "kali_start"
    /\ Len(sessAdd) = 1
    /\ task.kind = "clone"
    /\ task.exitstatus = "OK"
    /\ task.vmid = sessAdd[1].vmid
    /\ task.node = sessAdd[1].node

\* the calls of a teardown of the rows rs, one row after the other
RECURSIVE TeardownCalls(_)
TeardownCalls(rs) ==
    IF rs = <<>> THEN <<>>
    ELSE LET r == Head(rs)
         IN  <<Call(r.type \o ".stop", r.node, r.vmid), Call("tasks.status", r.node, r.vmid),
               Call(r.type \o ".delete", r.node, r.vmid), Call("tasks.status", r.node, r.vmid)>>
             \o TeardownCalls(Tail(rs))

\* how many of the four calls for the row in hand delete_table has made
CallsInHand ==
    CASE pc = "x_stop_wait" -> 1
      [] pc = "x_delete" -> 2
      [] pc = "x_delete_wait" -> 3
      [] pc = "x_row" -> 4
      [] OTHER -> 0

\* delete_table goes through the rows of the table in the order of the ledger:
\* stop, wait, delete, wait, db.delete for one row before the stop of the next
TeardownOrder ==
    (op.kind = "delete" /\ table # NoTable /\ pc # "failed") =>
        LET rs == ResourcesOfTable(pre.resources, table.id)
            n == Len(rs) - Len(todo)
        IN  /\ todo = SubSeq(rs, n + 1, Len(rs))
            /\ pc \notin {"x_commit", "done"} => sessDel = {rs[i].id : i \in 1..n}
            /\ pc \in {"x_commit", "done"} => todo = <<>>
            /\ CallsInHand > 0 => todo # <<>>
            /\ calls = <<Call("nodes.get", NoName, 0)>>
                         \o TeardownCalls(SubSeq(rs, 1, n))
                         \o (IF CallsInHand = 0 THEN <<>>
                             ELSE SubSeq(TeardownCalls(<<Head(todo)>>), 1, CallsInHand))

\* a delete call follows a stop task found stopped with OK, and a db.delete a
\* delete task found stopped with OK, each for the row in hand
TeardownStep ==
    op.kind = "delete" =>
        /\ (Len(calls') > Len(calls) /\ calls'[Len(calls')].call \in DeleteCalls) =>
                /\ task.kind = "stop"
                /\ task.status = "stopped"
                /\ task.exitstatus = "OK"
                /\ task.vmid = calls'[Len(calls')].vmid
                /\ task.vmid = Head(todo).vmid
        /\ sessDel' \ sessDel # {} =>
                /\ task.kind = "delete"
                /\ task.status = "stopped"
                /\ task.exitstatus = "OK"
                /\ task.vmid = Head(todo).vmid
                /\ sessDel' = sessDel \cup {Head(todo).id}

\* C14: delete_table handles the rows of the table in ledger order, each with
\* stop, stop task found stopped with OK, delete, delete task found stopped with
\* OK, db.delete of the row; it makes no delete call before the stop task of the
\* resource has ended OK and deletes no row before its delete task has ended OK.
C14_TeardownOrder == []TeardownOrder /\ [][TeardownStep]_vars

\* a teardown of a table with three rows has returned
C14_Witness ==
    /\ op.kind = "delete"
    /\ pc = "done"
    /\ Len(ResourcesOfTable(pre.resources, table.id)) = 3
    /\ Len(calls) = 13

\* the positions (0 or 1) of the container templates among the first two targets
ContainerPositions ==
    {p \in 0..1 : p < Len(TemplatesByRole(templates, "target"))
                    /\ TemplatesByRole(templates, "target")[p + 1].is_container}

\* how many of the calls c the request has made
Count(c) == Cardinality({i \in DOMAIN calls : calls[i].call \in c})

\* C18: deploy_table clones only container templates among the first two target
\* templates in registration order: a container it has provisioned is the clone
\* of the template at position p (0 or 1) and has the last octet 101 + p; for a
\* template that is not a container, or is behind the first two, it makes no
\* clone, config or start call and writes no row, and that raises no error; it
\* never writes more than three rows.
C18_TwoContainerTargets ==
    op.kind = "deploy" =>
        /\ (task.kind = "clone" /\ task.type = "lxc") =>
                \E p \in ContainerPositions :
                    task.source = TemplatesByRole(templates, "target")[p + 1].pve_vmid
        /\ \A k \in DOMAIN added :
                added[k].type = "lxc" =>
                    \E p \in ContainerPositions :
                        /\ cluster[added[k].vmid].source
                             = TemplatesByRole(templates, "target")[p + 1].pve_vmid
                        /\ cluster[added[k].vmid].ip = <<10, 10, 50 + op.table_num, 101 + p>>
        /\ Cardinality({k \in DOMAIN added : added[k].type = "lxc"})
             <= Cardinality(ContainerPositions)
        /\ ~bulk.active =>
                /\ Count({"lxc.clone"}) <= Cardinality(ContainerPositions)
                /\ Count({"lxc.config"}) <= Cardinality(ContainerPositions)
                /\ Count({"lxc.start"}) <= Cardinality(ContainerPositions)
                /\ Count({"qemu.clone"}) <= 1
                /\ Count({"qemu.config"}) <= 1
                /\ Count({"qemu.start"}) <= 1
        /\ Len(added) <= 3
        /\ Len(resources) <= Len(pre.resources) + 3
        /\ pc = "failed" =>
                \/ err.kind \in {"Exception", "ZeroDivisionError"}
                \/ err.kind = "HTTPException" /\ task.exitstatus # "OK"
        /\ (DeployReturned /\ Online # {}) =>
                Len(added) = Cardinality(ContainerPositions)
                               + (IF TemplatesByRole(templates, "attacker") = <<>> THEN 0 ELSE 1)

\* with a VM template first among the targets and three target templates, a
\* deployment has returned with two rows: the attacker and the second target
C18_Witness ==
    /\ DeployReturned
    /\ Len(TemplatesByRole(templates, "target")) = 3
    /\ ContainerPositions = {1}
    /\ Len(added) = 2
    /\ added[2].type = "lxc"
    /\ cluster[added[2].vmid].ip = <<10, 10, 50 + op.table_num, 102>>

\* the resources of table T the cluster had before the deploy_table in progress
Earlier(T) ==
    {v \in DOMAIN cluster :
        /\ \A k \in DOMAIN added : added[k].vmid # v
        /\ cluster[v].ip # <<>>
        /\ cluster[v].ip[3] = 50 + T}

\* C19: a deploy_table(T) that returns has cloned a resource for every role,
\* whatever the cluster had: for each resource of table T that was on the
\* cluster before, the cluster now has a second resource, with another id, of
\* the same kind, cloned from the same template, with the same IP.
C19_Duplicates ==
    DeployReturned =>
        \A v \in Earlier(op.table_num) :
            \E k \in DOMAIN added :
                /\ added[k].vmid # v
                /\ added[k].vmid \in DOMAIN cluster
                /\ cluster[added[k].vmid].type = cluster[v].type
                /\ cluster[added[k].vmid].source = cluster[v].source
                /\ cluster[added[k].vmid].ip = cluster[v].ip

\* a retry after a partial failure has returned: the attacker VM of the failed
\* attempt, which has no row, and the one of the retry carry the same IP
C19_Witness ==
    /\ DeployReturned
    /\ pc = "done"
    /\ \E v \in Earlier(op.table_num) :
            /\ cluster[v].type = "qemu"
            /\ \A r \in Rows(resources) : r.vmid # v
            /\ \E k \in DOMAIN added :
                    added[k].vmid # v /\ cluster[added[k].vmid].ip = cluster[v].ip

\* the rows of other tables than the one delete_table has looked up
RECURSIVE OtherRows(_)
OtherRows(rows) ==
    IF rows = <<>> THEN <<>>
    ELSE IF table # NoTable /\ Head(rows).table_id = table.id THEN OtherRows(Tail(rows))
    ELSE <<Head(rows)>> \o OtherRows(Tail(rows))

\* C20: a delete_table(T) leaves the TableLab rows and the DeployedResource rows
\* of other tables as they were, and makes stop and delete calls only for the
\* resource ids of the rows of table T, each on the node its row names, whatever
\* nodes are online by then.
C20_TeardownFrame ==
    op.kind = "delete" =>
        /\ tables = pre.tables
        /\ OtherRows(resources) = OtherRows(pre.resources)
        /\ \A i \in DOMAIN calls :
                calls[i].call \in StopCalls \cup DeleteCalls =>
                    /\ table.table_number = op.table_num
                    /\ \E r \in Rows(pre.resources) :
                            /\ r.table_id = table.id
                            /\ r.vmid = calls[i].vmid
                            /\ r.node = calls[i].node
                            /\ calls[i].call \in {r.type \o ".stop", r.type \o ".delete"}

\* table 3 was deployed on proxmox1 with three nodes online; with proxmox3
\* offline, where table 3 would go to proxmox2, its teardown has returned, after
\* calls on proxmox1, and the TableLab row of table 4 is in the ledger
C20_Witness ==
    /\ op = [kind |-> "delete", table_num |-> 3]
    /\ pc = "done"
    /\ nodeStatus[proxmox3] = "offline"
    /\ \E i \in DOMAIN calls : calls[i].call = "lxc.delete" /\ calls[i].node = proxmox1
    /\ \E i \in DOMAIN calls : calls[i].call = "qemu.delete" /\ calls[i].node = proxmox1
    /\ \E t \in Rows(tables) : t.table_number = 4

\* while the task wait_for_task waits for stays running, a step is a poll that
\* leaves the request where it is
WaitingHolds ==
    (pc \in WaitPcs /\ task.status = "running" /\ task'.status = "running") =>
        (pc' = pc /\ ~Ended' /\ task'.polls # task.polls)

\* C15: when every task the cluster runs comes to be stopped, a deploy_table or
\* delete_table that has begun comes to its end, by return or by exception; as
\* long as the task wait_for_task waits for stays running, wait_for_task polls
\* again and the request does not end.
C15_Termination ==
    /\ ([]<>(task.status # "running")) => [](~Ended => <>Ended)
    /\ [][WaitingHolds]_vars

\* wait_for_task has found the delete task running and polls again
C15_Witness ==
    /\ pc = "x_delete_wait"
    /\ task.kind = "delete"
    /\ task.status = "running"
    /\ task.polls = 1

\* wait_for_task has returned to request f for the clone under its new_id
Holds(f) ==
    /\ flows[f].new_id \in flows[f].cloned
    /\ flows[f].pc \in {"kali_finish", "tgt_finish", "tgt_id", "commit", "done"}

\* C16: two deploy_table requests for one table number run without coordination.
\* When both have found no TableLab row, both try to create it: one row is
\* created and the other request ends with the IntegrityError of the unique
\* table number.  Both can hold the same new_id; the clone under it is confirmed
\* to one of them at most.  When both have returned, every row of the one has a
\* twin of the other: another resource id, the same kind, table and IP.
C16_SameTableRace ==
    flows[1].T = flows[2].T =>
        /\ (\A f \in Flows : flows[f].sawNone /\ flows[f].pc # "insert") =>
                /\ Cardinality({t \in Rows(tables) : t.table_number = flows[1].T}) = 1
                /\ \E f \in Flows :
                        flows[f].err = [kind |-> "IntegrityError",
                                        detail |-> "tables.table_number"]
        /\ flows[1].new_id = flows[2].new_id => ~(Holds(1) /\ Holds(2))
        /\ (\A f \in Flows : flows[f].pc = "done") =>
                \A i \in DOMAIN flows[1].rows :
                    \E j \in DOMAIN flows[2].rows :
                        LET a == flows[1].rows[i]
                            b == flows[2].rows[j]
                        IN  /\ a.vmid # b.vmid
                            /\ a.type = b.type
                            /\ a.table_id = b.table_id
                            /\ cluster[a.vmid].ip = cluster[b.vmid].ip
                            /\ \E r \in Rows(resources) : r.vmid = a.vmid
                            /\ \E r \in Rows(resources) : r.vmid = b.vmid

\* both requests for table 3 have returned: the table has two attacker VMs with
\* the IP 10.10.53.100, each with its committed row
C16_Witness ==
    /\ \A f \in Flows : flows[f].T = 3 /\ flows[f].pc = "done"
    /\ \E a \in Rows(resources), b \in Rows(resources) :
            /\ a.vmid # b.vmid
            /\ a.table_id = b.table_id
            /\ a.type = "qemu"
            /\ b.type = "qemu"
            /\ cluster[a.vmid].ip = <<10, 10, 53, 100>>
            /\ cluster[b.vmid].ip = <<10, 10, 53, 100>>

\* C17: two deploy_table requests for different table numbers, run at the same
\* time, end as each would alone: every row a request has written is owned by
\* the TableLab row of its table number, no resource id is in two rows, no
\* resource id is given to two clone calls, and no request ends with an error of
\* the other's making (a clone under an id in use, a unique constraint).
C17_DifferentTablesIndependent ==
    flows[1].T # flows[2].T =>
        /\ \A f \in Flows : \A i \in DOMAIN flows[f].rows :
                \E t \in Rows(tables) :
                    t.table_number = flows[f].T /\ t.id = flows[f].rows[i].table_id
        /\ \A i, j \in DOMAIN resources : resources[i].vmid = resources[j].vmid => i = j
        /\ flows[1].cloned \cap flows[2].cloned = {}
        /\ \A f \in Flows : flows[f].err.kind \notin {"ResourceException", "IntegrityError"}

====
